---- MODULE Spec2Model ----
(***************************************************************************)
(* Model of the IMVU client (login handshake, authenticated request,       *)
(* query resolution, avatar/profile fan-out, field normalization) and of   *)
(* the POST /api/avatar handler that drives it.                            *)
(*                                                                         *)
(* Strings are sequences of one-character strings, so that the regular     *)
(* expression test, template-literal paths, includes() and replace() are   *)
(* computed and not assumed.  A JavaScript value is a record [t, s]: t is  *)
(* its type tag and s its text.                                            *)
(***************************************************************************)
EXTENDS Integers, Sequences, FiniteSets, TLC

\* ------------------------------------------------------------ bounds
MaxQueryLen == 2

\* how many other fields of a normalized payload use the camelCase key
MaxCamel == 2

Chars == {"4", "2", "a"}

Digits == {"0", "1", "2", "3", "4", "5", "6", "7", "8", "9"}

\* ------------------------------------------------------------ JS values
Undef == [t |-> "undefined", s |-> <<>>]

Null == [t |-> "null", s |-> <<>>]

False == [t |-> "false", s |-> <<>>]

True == [t |-> "true", s |-> <<>>]

Str(s) == [t |-> "str", s |-> s]

Num(s) == [t |-> "num", s |-> s]

Now(c) == [t |-> "date", s |-> c]

EmptyStr == Str(<<>>)

\* JavaScript truthiness: undefined, null, false, 0 and '' are falsy.
Truthy(v) ==
    CASE v.t \in {"undefined", "null", "false"} -> FALSE
      [] v.t = "str" -> v.s # <<>>
      [] v.t = "num" -> v.s # <<"0">>
      [] OTHER -> TRUE

\* a || b
Or(a, b) == IF Truthy(a) THEN a ELSE b

\* `${v}` in a template literal
TemplateStr(v) ==
    CASE v.t \in {"str", "num", "date"} -> v.s
      [] v.t = "true" -> <<"t", "r", "u", "e">>
      [] v.t = "false" -> <<"f", "a", "l", "s", "e">>
      [] v.t = "null" -> <<"n", "u", "l", "l">>
      [] OTHER -> <<"u", "n", "d", "e", "f", "i", "n", "e", "d">>

\* ------------------------------------------------------------ string literals
sUserDash == <<"u", "s", "e", "r", "-">>

sUnknown == <<"u", "n", "k", "n", "o", "w", "n">>

sUserPath == <<"/", "u", "s", "e", "r">>

sUserByIdPath == <<"/", "u", "s", "e", "r", "/", "u", "s", "e", "r", "-">>

sAvatarPath == <<"/", "a", "v", "a", "t", "a", "r", "/", "a", "v", "a", "t", "a", "r", "-">>

sProfilePath ==
    <<"/", "p", "r", "o", "f", "i", "l", "e", "/",
      "p", "r", "o", "f", "i", "l", "e", "-", "u", "s", "e", "r", "-">>

sData == <<"d", "a", "t", "a">>

\* key.includes(sub)
Includes(key, sub) ==
    \E i \in 1..(Len(key) - Len(sub) + 1) : SubSeq(key, i, i + Len(sub) - 1) = sub

\* key.replace(sub, ''): the first occurrence is removed
ReplaceFirst(key, sub) ==
    IF ~Includes(key, sub) THEN key
    ELSE LET i == CHOOSE j \in 1..(Len(key) - Len(sub) + 1) :
                     /\ SubSeq(key, j, j + Len(sub) - 1) = sub
                     /\ \A k \in 1..(j - 1) : SubSeq(key, k, k + Len(sub) - 1) # sub
         IN SubSeq(key, 1, i - 1) \o SubSeq(key, i + Len(sub), Len(key))

\* ------------------------------------------------------------ payloads
UserDualFields ==
    {"displayName", "avatarImage", "avatarPortraitImage", "isVip", "isCreator",
     "isAp", "isStaff", "isAdult", "isAgeVerified"}

AvatarDualFields == {"lookUrl", "assetUrl"}

\* the upstream snake_case key of a canonical field
Snake(f) ==
    CASE f = "displayName" -> "display_name"
      [] f = "avatarImage" -> "avatar_image"
      [] f = "avatarPortraitImage" -> "avatar_portrait_image"
      [] f = "isVip" -> "is_vip"
      [] f = "isCreator" -> "is_creator"
      [] f = "isAp" -> "is_ap"
      [] f = "isStaff" -> "is_staff"
      [] f = "isAdult" -> "is_adult"
      [] f = "isAgeVerified" -> "is_ageverified"
      [] f = "lookUrl" -> "look_url"
      [] f = "assetUrl" -> "asset_url"

DataKeys ==
    {"id", "_id", "username", "avatarname", "gender", "age", "country", "state",
     "created", "created_datetime", "registered", "registered_datetime",
     "sauce", "image", "online", "avatar_name", "avatarName", "title",
     "approx_following_count", "followingCount", "approx_follower_count",
     "followerCount"}
    \cup UserDualFields \cup AvatarDualFields
    \cup {Snake(f) : f \in UserDualFields \cup AvatarDualFields}

\* a data object: its scalar properties (absent ones read as undefined), and
\* its array properties items and products (hasX says the array is there)
Data(props) ==
    [f |-> [k \in DataKeys |-> IF k \in DOMAIN props THEN props[k] ELSE Undef],
     hasItems |-> FALSE, items |-> <<>>,
     hasProducts |-> FALSE, products |-> <<>>]

NoProps == [k \in {} |-> Undef]

WithItems(d, list) == [d EXCEPT !.hasItems = TRUE, !.items = list]

WithProducts(d, list) == [d EXCEPT !.hasProducts = TRUE, !.products = list]

\* a resource of a denormalized envelope: keys are its own property names in
\* insertion order, hasData says whether .data is truthy
Resource(keys, d) == [defined |-> TRUE, keys |-> keys, hasData |-> TRUE, data |-> d]

ResourceNoData(keys) ==
    [defined |-> TRUE, keys |-> keys, hasData |-> FALSE, data |-> Data(NoProps)]

Undefined == [defined |-> FALSE, keys |-> <<>>, hasData |-> FALSE, data |-> Data(NoProps)]

\* denormalized[key]
Deref(map, key) == IF key \in DOMAIN map THEN map[key] ELSE Undefined

\* ------------------------------------------------------------ normalization
\* Object.keys(userData).find(key => key.includes('user-'))
FindUserKey(keys) ==
    IF \E i \in 1..Len(keys) : Includes(keys[i], sUserDash)
    THEN LET i == CHOOSE j \in 1..Len(keys) :
                     /\ Includes(keys[j], sUserDash)
                     /\ \A k \in 1..(j - 1) : ~Includes(keys[k], sUserDash)
         IN <<keys[i]>>
    ELSE <<>>

\* the id of parseUserData: data.id || data._id, else the prefix-stripped own
\* key of the resource object that contains 'user-'
RecoverId(userData) ==
    LET id == Or(userData.data.f["id"], userData.data.f["_id"])
        idMatch == FindUserKey(userData.keys)
    IN IF ~Truthy(id) /\ idMatch # <<>>
       THEN Str(ReplaceFirst(idMatch[1], sUserDash))
       ELSE id

\* Dual reading the snake_case key only
DualSnakeOnly(d, f, default) == Or(d.f[Snake(f)], default)

\* data.<snake> || data.<camel> || default
Dual(d, f, default) == Or(Or(d.f[Snake(f)], d.f[f]), default)

\* A parse result is <<record>>, or <<>> for null.  now is the value of
\* new Date() at the call.
parseUserData(userData, now) ==
    IF ~userData.defined \/ ~userData.hasData THEN <<>>
    ELSE LET d == userData.data IN
      <<[id |-> Or(RecoverId(userData), Str(sUnknown)),
         username |-> Or(Or(d.f["username"], d.f["avatarname"]), EmptyStr),
         displayName |-> Dual(d, "displayName", EmptyStr),
         gender |-> Or(d.f["gender"], EmptyStr),
         age |-> Or(d.f["age"], Null),
         country |-> Or(d.f["country"], EmptyStr),
         state |-> Or(d.f["state"], EmptyStr),
         avatarImage |-> Dual(d, "avatarImage", EmptyStr),
         avatarPortraitImage |-> Dual(d, "avatarPortraitImage", EmptyStr),
         isVip |-> Dual(d, "isVip", False),
         isCreator |-> Dual(d, "isCreator", False),
         isAp |-> Dual(d, "isAp", False),
         isStaff |-> Dual(d, "isStaff", False),
         isAdult |-> Dual(d, "isAdult", False),
         isAgeVerified |-> Dual(d, "isAgeVerified", False),
         created |-> Or(Or(d.f["created"], d.f["created_datetime"]), now),
         registered |-> Or(Or(d.f["registered"], d.f["registered_datetime"]), now)]>>

parseAvatarData(avatarData) ==
    IF ~avatarData.defined \/ ~avatarData.hasData THEN <<>>
    ELSE LET d == avatarData.data IN
      <<[lookUrl |-> Dual(d, "lookUrl", EmptyStr),
         assetUrl |-> Dual(d, "assetUrl", EmptyStr),
         gender |-> Or(d.f["gender"], EmptyStr),
         products |-> IF d.hasProducts THEN d.products ELSE <<>>]>>

parseProfileData(profileData) ==
    IF ~profileData.defined \/ ~profileData.hasData THEN <<>>
    ELSE LET d == profileData.data IN
      <<[image |-> Or(d.f["image"], EmptyStr),
         online |-> Or(d.f["online"], False),
         username |-> Or(Or(d.f["avatar_name"], d.f["avatarName"]), EmptyStr),
         displayName |-> Or(d.f["title"], EmptyStr),
         followingCount |->
             Or(Or(d.f["approx_following_count"], d.f["followingCount"]), Num(<<"0">>)),
         followerCount |->
             Or(Or(d.f["approx_follower_count"], d.f["followerCount"]), Num(<<"0">>))]>>

\* ------------------------------------------------------------ HTTP outcomes
\* A response body: the failure marker, the denormalized envelope (hasDenorm
\* says it is there), and the id pointer (<<>> when absent).
Body(status, hasDenorm, map, id) ==
    [status |-> status, hasDenorm |-> hasDenorm, map |-> map, id |-> id]

NoMap == [k \in {} |-> Undefined]

\* What this.http resolves or rejects with.  validateStatus accepts every
\* status, so a rejection is a transport error (network, timeout).
Http(body) == [rejects |-> FALSE, data |-> body]

Rejected == [rejects |-> TRUE, data |-> Body("", FALSE, NoMap, <<>>)]

Failure == Http(Body("failure", FALSE, NoMap, <<>>))

\* the outcome of an async call: it throws, or returns val
Throw(e) == [threw |-> TRUE, err |-> e, val |-> <<>>]

Return(v) == [threw |-> FALSE, err |-> "", val |-> v]

\* request(): the body, or an error for a rejection or a failure marker; the
\* catch block rethrows (a new API error, or the error itself)
request(out) ==
    IF out.rejects THEN Throw("transport")
    ELSE IF out.data.status = "failure" THEN Throw("api")
    ELSE Return(<<out.data>>)

\* the part of getUserById after the request: the whole body is in try/catch
getUserById(out, now) ==
    LET r == request(out) IN
    IF r.threw THEN Return(<<>>)
    ELSE LET response == r.val[1] IN
         IF response.hasDenorm /\ response.id # <<>>
         THEN Return(parseUserData(Deref(response.map, response.id), now))
         ELSE Return(<<>>)

\* getUserByUsername without the dereference of items[0]
getUserByUsernameNoDeref(out, now) == getUserById(out, now)

\* the part of getUserByUsername after the request
getUserByUsername(out, now) ==
    LET r == request(out) IN
    IF r.threw THEN Return(<<>>)
    ELSE LET response == r.val[1] IN
         IF response.hasDenorm /\ response.id # <<>>
         THEN LET userData == Deref(response.map, response.id) IN
              IF ~userData.defined THEN Return(<<>>)  \* TypeError, caught
              ELSE IF userData.hasData /\ userData.data.hasItems
                      /\ Len(userData.data.items) > 0
              THEN Return(parseUserData(Deref(response.map, userData.data.items[1]), now))
              ELSE Return(parseUserData(userData, now))
         ELSE Return(<<>>)

getAvatarData(out) ==
    LET r == request(out) IN
    IF r.threw THEN Return(<<>>)
    ELSE LET response == r.val[1] IN
         IF response.hasDenorm /\ response.id # <<>>
         THEN Return(parseAvatarData(Deref(response.map, response.id)))
         ELSE Return(<<>>)

getProfileData(out) ==
    LET r == request(out) IN
    IF r.threw THEN Return(<<>>)
    ELSE LET response == r.val[1] IN
         IF response.hasDenorm /\ response.id # <<>>
         THEN Return(parseProfileData(Deref(response.map, response.id)))
         ELSE Return(<<>>)

\* promise.catch(() => null)
CatchNull(r) == IF r.threw THEN <<>> ELSE r.val

\* /^\d+$/.test(query): one or more characters, each a decimal digit, up to
\* the end of the input
RECURSIVE MatchDigits(_, _)
MatchDigits(q, i) ==
    IF i > Len(q) THEN i > 1
    ELSE IF q[i] \in Digits THEN MatchDigits(q, i + 1)
    ELSE FALSE

\* the test without its anchors, /\d+/: some character is a digit
isNumericUnanchored(q) == \E i \in 1..Len(q) : q[i] \in Digits

isNumeric(q) == MatchDigits(q, 1)

\* ------------------------------------------------------------ state
VARIABLES
    authenticated,  \* this.authenticated
    sauce,          \* this.sauce
    username,       \* this.username
    password,       \* this.password
    headers,        \* this.http.defaults.headers.common: [sauce, app], <<>> = not set
    loginPc,        \* where the login call in progress is: idle, post, me
    loginResult,    \* none, pending, true (returned true), error (threw)
    loginError,     \* which error the last login threw
    lastPost,       \* <<outcome>> of POST /login of the last login call
    lastMe,         \* <<outcome>> of GET /login/me of the last login call
    wire,           \* <<headers>> carried by the last outgoing API request
    lookupPc,       \* where the /api/avatar handler is: idle, primary, fanout, done
    query,          \* req.body.query
    sent,           \* the upstream requests of this lookup, in the order issued
    primaryResp,    \* <<outcome>> of the primary user request
    user,           \* user of getUserData: <<record>> or <<>>
    avPc,           \* avatar sub-fetch: none, pending, done
    prPc,           \* profile sub-fetch: none, pending, done
    avResp,         \* <<outcome>> of the avatar request
    prResp,         \* <<outcome>> of the profile request
    avatar,         \* settled value of the avatar promise
    profile,        \* settled value of the profile promise
    completed,      \* the sub-fetches in the order they completed
    httpStatus,     \* status of the handler's response, 0 before it
    resBody,        \* <<data>> of the handler's response
    normIn,         \* normalization under test: its input
    normOut         \* normalization under test: its outputs

sessionVars == <<authenticated, sauce, username, password, headers>>

loginVars == <<loginPc, loginResult, loginError, lastPost, lastMe>>

lookupVars ==
    <<lookupPc, query, sent, primaryResp, user, avPc, prPc, avResp, prResp,
      avatar, profile, completed, httpStatus, resBody>>

normVars == <<normIn, normOut>>

vars == <<sessionVars, loginVars, wire, lookupVars, normVars>>

NoHeaders == [sauce |-> <<>>, app |-> <<>>]

sImvuWeb == <<"i", "m", "v", "u", "-", "w", "e", "b">>

InitProgram ==
    /\ authenticated = FALSE
    /\ sauce = EmptyStr
    /\ username = <<>>
    /\ password = <<>>
    /\ headers = NoHeaders
    /\ loginPc = "idle"
    /\ loginResult = "none"
    /\ loginError = ""
    /\ lastPost = <<>>
    /\ lastMe = <<>>
    /\ wire = <<>>
    /\ lookupPc = "idle"
    /\ query = <<>>
    /\ sent = <<>>
    /\ primaryResp = <<>>
    /\ user = <<>>
    /\ avPc = "none"
    /\ prPc = "none"
    /\ avResp = <<>>
    /\ prResp = <<>>
    /\ avatar = <<>>
    /\ profile = <<>>
    /\ completed = <<>>
    /\ httpStatus = 0
    /\ resBody = <<>>
    /\ normOut = <<>>

Init == InitProgram /\ normIn = <<>>

\* ------------------------------------------------------------ login
Usernames == {<<"a", "l">>, <<"b", "o">>}

Passwords == {<<"p", "w">>}

Token1 == Str(<<"s", "1">>)

Token2 == Str(<<"s", "2">>)

kMe == <<"u", "s", "e", "r", "-", "1">>

MeResource(v) == Resource(<<sData>>, Data("sauce" :> v))

MeBody(status, res) == Body(status, TRUE, kMe :> res, kMe)

PostOutcomes == {Rejected, Failure, Http(Body("success", FALSE, NoMap, <<>>))}

MeOutcomes ==
    {Rejected, Failure,
     Http(MeBody("failure", MeResource(Token2))),
     Http(Body("success", FALSE, NoMap, <<>>)),
     Http(Body("success", TRUE, kMe :> MeResource(Token2), <<>>)),
     Http(Body("success", TRUE, NoMap, kMe)),
     Http(MeBody("success", ResourceNoData(<<>>))),
     Http(MeBody("success", Resource(<<sData>>, Data(NoProps)))),
     Http(MeBody("success", MeResource(EmptyStr))),
     Http(MeBody("success", MeResource(Token1))),
     Http(MeBody("success", MeResource(Token2)))}

\* loginResponse.data.status === 'failure'
loginFailed(body) == body.status = "failure"

\* login without the check of the current-user response
meFailedIgnored(body) == FALSE

\* meResponse.data.status === 'failure'
meFailed(body) == body.status = "failure"

\* The sauce extraction: this.sauce after it, or the TypeError of reading
\* .data.sauce of an entry that is undefined or has no data.  Without the
\* envelope or its id pointer this.sauce is left as it was.
extractSauce(body, cur) ==
    IF body.hasDenorm /\ body.id # <<>>
    THEN LET userData == Deref(body.map, body.id) IN
         IF ~userData.defined \/ ~userData.hasData THEN Throw("type")
         ELSE Return(Or(userData.data.f["sauce"], EmptyStr))
    ELSE Return(cur)

\* the catch block of login
loginCatch(e) ==
    /\ authenticated' = FALSE
    /\ sauce' = EmptyStr
    /\ loginResult' = "error"
    /\ loginError' = e
    /\ loginPc' = "idle"
    /\ UNCHANGED headers

\* login(username, password) up to the await of the POST
login(u, p) ==
    /\ loginPc = "idle"
    /\ username' = u
    /\ password' = p
    /\ loginPc' = "post"
    /\ loginResult' = "pending"
    /\ loginError' = ""
    /\ lastPost' = <<>>
    /\ lastMe' = <<>>
    /\ UNCHANGED <<authenticated, sauce, headers, wire, lookupVars, normVars>>

\* the POST settles: up to the await of GET /login/me, or the catch block
loginPostSettled(out) ==
    /\ loginPc = "post"
    /\ lastPost' = <<out>>
    /\ IF out.rejects THEN loginCatch("transport")
       ELSE IF loginFailed(out.data) THEN loginCatch("credentials")
       ELSE /\ loginPc' = "me"
            /\ UNCHANGED <<authenticated, sauce, headers, loginResult, loginError>>
    /\ UNCHANGED <<username, password, lastMe, wire, lookupVars, normVars>>

\* the GET settles: the rest of login
loginMeSettled(out) ==
    /\ loginPc = "me"
    /\ lastMe' = <<out>>
    /\ IF out.rejects THEN loginCatch("transport")
       ELSE IF meFailed(out.data) THEN loginCatch("token")
       ELSE LET x == extractSauce(out.data, sauce) IN
            IF x.threw THEN loginCatch(x.err)
            ELSE IF ~Truthy(x.val) THEN loginCatch("token")
            ELSE /\ sauce' = x.val
                 /\ headers' = [sauce |-> <<x.val>>, app |-> <<sImvuWeb>>]
                 /\ authenticated' = TRUE
                 /\ loginResult' = "true"
                 /\ loginPc' = "idle"
                 /\ UNCHANGED loginError
    /\ UNCHANGED <<username, password, lastPost, wire, lookupVars, normVars>>

\* an API request leaves with the default headers of this.http
requestIssued ==
    /\ wire' = <<headers>>
    /\ UNCHANGED <<sessionVars, loginVars, lookupVars, normVars>>

NextLogin ==
    \/ \E u \in Usernames, p \in Passwords : login(u, p)
    \/ \E out \in PostOutcomes : loginPostSettled(out)
    \/ \E out \in MeOutcomes : loginMeSettled(out)
    \/ requestIssued

SpecLogin == Init /\ [][NextLogin]_vars

\* ------------------------------------------------------------ lookup: upstream outcomes
Times == {<<"t", "1">>, <<"t", "2">>}

Queries == UNION {[1..n -> Chars] : n \in 0..MaxQueryLen}

kUser7 == <<"u", "s", "e", "r", "-", "7">>

kUser9 == <<"u", "s", "e", "r", "-", "9">>

kSearch == <<"/", "u", "s", "e", "r", "?">>

kAvatar7 == <<"a", "v", "a", "t", "a", "r", "-", "7">>

kProfile7 == <<"p", "r", "o", "f", "i", "l", "e", "-", "u", "s", "e", "r", "-", "7">>

sRelations == <<"r", "e", "l", "a", "t", "i", "o", "n", "s">>

Epoch == Str(<<"2", "0", "2", "0">>)

\* a user resource with its id
UserFull ==
    Resource(<<sData, sRelations>>,
             Data(("id" :> Str(<<"7">>)) @@ ("username" :> Str(<<"a", "b">>))
                  @@ ("display_name" :> Str(<<"A">>)) @@ ("isVip" :> True)
                  @@ ("created" :> Epoch) @@ ("registered" :> Epoch)))

\* a user resource without id and _id
UserNoId ==
    Resource(<<sData, sRelations>>,
             Data(("avatarname" :> Str(<<"a", "b">>)) @@ ("created_datetime" :> Epoch)))

\* a user resource without id that has an own property named user-9
UserOwnKey == Resource(<<sData, kUser9>>, Data("username" :> Str(<<"a", "b">>)))

SearchWrapper(items) == Resource(<<sData>>, WithItems(Data(NoProps), items))

Ok(map, id) == Http(Body("success", TRUE, map, id))

UserOutcomes ==
    {Rejected, Failure,
     Http(Body("success", FALSE, NoMap, <<>>)),
     Ok(kUser7 :> UserFull, kUser9),
     Ok(kUser7 :> UserFull, kUser7),
     Ok(kUser7 :> UserNoId, kUser7),
     Ok(kUser9 :> UserOwnKey, kUser9),
     Ok((kSearch :> SearchWrapper(<<kUser7>>)) @@ (kUser7 :> UserFull), kSearch),
     Ok((kSearch :> SearchWrapper(<<kUser7, kUser9>>)) @@ (kUser7 :> UserNoId)
        @@ (kUser9 :> UserFull), kSearch),
     Ok((kSearch :> SearchWrapper(<<kUser9>>)) @@ (kUser7 :> UserFull), kSearch),
     Ok((kSearch :> SearchWrapper(<<kUser7>>)) @@ (kUser7 :> ResourceNoData(<<>>)), kSearch),
     Ok(kSearch :> SearchWrapper(<<>>), kSearch)}

AvatarSnake ==
    Resource(<<sData>>,
             WithProducts(Data(("look_url" :> Str(<<"L">>)) @@ ("asset_url" :> Str(<<"S">>))),
                          <<"p1", "p2">>))

AvatarCamel == Resource(<<sData>>, Data(("lookUrl" :> Str(<<"L">>)) @@ ("gender" :> Str(<<"f">>))))

AvatarOutcomes ==
    {Rejected, Failure,
     Ok(kAvatar7 :> AvatarSnake, kAvatar7),
     Ok(kAvatar7 :> AvatarCamel, kAvatar7),
     Ok(kAvatar7 :> AvatarSnake, kUser9)}

ProfileFull ==
    Resource(<<sData>>,
             Data(("avatar_name" :> Str(<<"a", "b">>)) @@ ("online" :> True)
                  @@ ("approx_follower_count" :> Num(<<"3">>))))

ProfileOutcomes ==
    {Rejected, Failure,
     Ok(kProfile7 :> ProfileFull, kProfile7),
     Ok(kProfile7 :> ResourceNoData(<<>>), kProfile7),
     Http(Body("success", TRUE, kProfile7 :> ProfileFull, <<>>))}

\* ------------------------------------------------------------ lookup: handler and getUserData
\* the primary request of getUserData: getUserById or getUserByUsername
primaryRequest(q) ==
    IF isNumeric(q)
    THEN [url |-> sUserByIdPath \o q, params |-> <<>>, headers |-> headers]
    ELSE [url |-> sUserPath, params |-> <<q>>, headers |-> headers]

avatarRequest(userId) ==
    [url |-> sAvatarPath \o TemplateStr(userId), params |-> <<>>, headers |-> headers]

profileRequest(userId) ==
    [url |-> sProfilePath \o TemplateStr(userId), params |-> <<>>, headers |-> headers]

\* all-or-nothing: one failed sub-fetch drops the other's value too
combineAllOrNothing(u, a, p) ==
    IF a = <<>> \/ p = <<>> THEN [user |-> u, avatar |-> <<>>, profile |-> <<>>]
    ELSE [user |-> u, avatar |-> a, profile |-> p]

\* the value getUserData returns once both sub-fetches have settled
combine(u, a, p) == [user |-> u, avatar |-> a, profile |-> p]

\* POST /api/avatar arrives: 400 for a missing query, else getUserData up to
\* the await of the primary request
handler(q) ==
    /\ lookupPc \in {"idle", "done"}
    /\ query' = q
    /\ primaryResp' = <<>>
    /\ user' = <<>>
    /\ avPc' = "none"
    /\ prPc' = "none"
    /\ avResp' = <<>>
    /\ prResp' = <<>>
    /\ avatar' = <<>>
    /\ profile' = <<>>
    /\ completed' = <<>>
    /\ resBody' = <<>>
    /\ IF q = <<>>
       THEN /\ httpStatus' = 400
            /\ lookupPc' = "done"
            /\ sent' = <<>>
            /\ UNCHANGED wire
       ELSE /\ httpStatus' = 0
            /\ lookupPc' = "primary"
            /\ sent' = <<primaryRequest(q)>>
            /\ wire' = <<headers>>
    /\ UNCHANGED <<sessionVars, loginVars, normVars>>

\* the primary request settles: not found, or both sub-fetches are started
primarySettled(out, now) ==
    /\ lookupPc = "primary"
    /\ primaryResp' = <<out>>
    /\ LET r == IF isNumeric(query) THEN getUserById(out, now)
                ELSE getUserByUsername(out, now)
       IN /\ user' = r.val
          /\ IF r.threw
             THEN /\ httpStatus' = 500
                  /\ lookupPc' = "done"
                  /\ UNCHANGED <<sent, avPc, prPc, wire>>
             ELSE IF r.val = <<>>
             THEN /\ httpStatus' = 404
                  /\ lookupPc' = "done"
                  /\ UNCHANGED <<sent, avPc, prPc, wire>>
             ELSE /\ sent' = sent \o <<avatarRequest(r.val[1].id), profileRequest(r.val[1].id)>>
                  /\ wire' = <<headers>>
                  /\ avPc' = "pending"
                  /\ prPc' = "pending"
                  /\ lookupPc' = "fanout"
                  /\ UNCHANGED httpStatus
    /\ UNCHANGED <<query, avResp, prResp, avatar, profile, completed, resBody>>
    /\ UNCHANGED <<sessionVars, loginVars, normVars>>

avatarSettled(out) ==
    /\ lookupPc = "fanout"
    /\ avPc = "pending"
    /\ avResp' = <<out>>
    /\ avatar' = CatchNull(getAvatarData(out))
    /\ avPc' = "done"
    /\ completed' = Append(completed, "avatar")
    /\ UNCHANGED <<lookupPc, query, sent, primaryResp, user, prPc, prResp, profile,
                   httpStatus, resBody>>
    /\ UNCHANGED <<sessionVars, loginVars, wire, normVars>>

profileSettled(out) ==
    /\ lookupPc = "fanout"
    /\ prPc = "pending"
    /\ prResp' = <<out>>
    /\ profile' = CatchNull(getProfileData(out))
    /\ prPc' = "done"
    /\ completed' = Append(completed, "profile")
    /\ UNCHANGED <<lookupPc, query, sent, primaryResp, user, avPc, avResp, avatar,
                   httpStatus, resBody>>
    /\ UNCHANGED <<sessionVars, loginVars, wire, normVars>>

\* Promise.all resolves: getUserData returns and the handler answers
allSettled ==
    /\ lookupPc = "fanout"
    /\ avPc = "done"
    /\ prPc = "done"
    /\ resBody' = <<combine(user, avatar, profile)>>
    /\ httpStatus' = 200
    /\ lookupPc' = "done"
    /\ UNCHANGED <<query, sent, primaryResp, user, avPc, prPc, avResp, prResp,
                   avatar, profile, completed>>
    /\ UNCHANGED <<sessionVars, loginVars, wire, normVars>>

Next ==
    \/ \E q \in Queries : handler(q)
    \/ \E out \in UserOutcomes, now \in Times : primarySettled(out, Now(now))
    \/ \E out \in AvatarOutcomes : avatarSettled(out)
    \/ \E out \in ProfileOutcomes : profileSettled(out)
    \/ allSettled

Spec == Init /\ [][Next]_vars

\* ------------------------------------------------------------ normalization on its own
Values ==
    {Undef, Null, False, True, EmptyStr, Str(<<"x">>), Num(<<"0">>), Num(<<"5">>)}

Filler == True

\* The payload that carries v for field f under the snake_case key (or the
\* camelCase key), and Filler for every other field of the record, under the
\* camelCase key for the fields in camel and the snake_case key for the rest.
Payload(fields, f, useCamel, v, camel) ==
    LET keyOf(g) == IF g \in camel THEN g ELSE Snake(g)
        own == IF useCamel THEN f ELSE Snake(f)
    IN Resource(<<sData>>,
                [Data(NoProps) EXCEPT !.f =
                    [k \in DataKeys |->
                        IF k = own THEN v
                        ELSE IF \E g \in fields \ {f} : k = keyOf(g) THEN Filler
                        ELSE Undef]])

UpTo(fields, n) == {c \in SUBSET fields : Cardinality(c) <= n}

NormInputs ==
    [kind : {"user"}, field : UserDualFields, v : Values,
     camel : UpTo(UserDualFields, MaxCamel)]
    \cup [kind : {"avatar"}, field : AvatarDualFields, v : Values,
          camel : UpTo(AvatarDualFields, MaxCamel)]

InitNorm == InitProgram /\ normIn \in {<<i>> : i \in NormInputs}

\* parseUserData on the snake_case payload and on the camelCase payload
normalizeUser(now) ==
    /\ normOut = <<>>
    /\ normIn[1].kind = "user"
    /\ LET i == normIn[1] IN
       normOut' = <<parseUserData(Payload(UserDualFields, i.field, FALSE, i.v, i.camel), now),
                    parseUserData(Payload(UserDualFields, i.field, TRUE, i.v, i.camel), now)>>
    /\ UNCHANGED <<sessionVars, loginVars, wire, lookupVars, normIn>>

\* parseAvatarData on the snake_case payload and on the camelCase payload
normalizeAvatar ==
    /\ normOut = <<>>
    /\ normIn[1].kind = "avatar"
    /\ LET i == normIn[1] IN
       normOut' = <<parseAvatarData(Payload(AvatarDualFields, i.field, FALSE, i.v, i.camel)),
                    parseAvatarData(Payload(AvatarDualFields, i.field, TRUE, i.v, i.camel))>>
    /\ UNCHANGED <<sessionVars, loginVars, wire, lookupVars, normIn>>

NextNorm ==
    \/ \E now \in Times : normalizeUser(Now(now))
    \/ normalizeAvatar

SpecNorm == InitNorm /\ [][NextNorm]_vars

\* ============================================================ claims
\* the outcome o (<<>> before it) is a response with the failure marker
FailureMarker(o) == o # <<>> /\ ~o[1].rejects /\ o[1].data.status = "failure"

\* a login call has ended
LoginEnded == loginPc = "idle" /\ loginResult \in {"true", "error"}

\* C1: a login call in which the POST response or the current-user response
\* carries the failure marker ends not authenticated, with the token cleared,
\* and fails.
C1_FailureMarkerClearsSession ==
    (LoginEnded /\ (FailureMarker(lastPost) \/ FailureMarker(lastMe)))
    => (~authenticated /\ sauce = EmptyStr /\ loginResult = "error")

\* C1 witness: a session authenticated by an earlier login (its token header
\* is installed) whose next login got a failure-marked current-user response.
C1_Witness ==
    /\ LoginEnded
    /\ FailureMarker(lastMe)
    /\ headers.sauce = <<Token1>>
    /\ loginResult = "error"
    /\ ~authenticated

\* the current-user body delivers a non-empty sauce
DeliversSauce(body) ==
    /\ body.hasDenorm
    /\ body.id # <<>>
    /\ LET e == Deref(body.map, body.id) IN
       e.defined /\ e.hasData /\ Truthy(e.data.f["sauce"])

\* C2: a login call whose current-user response yields no non-empty sauce
\* fails and does not mark the session authenticated, whatever token an
\* earlier login stored.
C2_NoSauceNoSession ==
    (LoginEnded /\ lastMe # <<>> /\ ~lastMe[1].rejects /\ ~DeliversSauce(lastMe[1].data))
    => (loginResult = "error" /\ ~authenticated)

\* C10: in every state the token header attached to outgoing requests is the
\* stored session token (no header when the token is empty), so a session
\* that is not authenticated sends no token.
C10_HeaderIsStoredToken ==
    headers.sauce = (IF Truthy(sauce) THEN <<sauce>> ELSE <<>>)

\* the query consists only of one or more decimal digits
AllDigits(q) == q # <<>> /\ \A i \in 1..Len(q) : q[i] \in Digits

\* the primary outcome is a body without failure marker holding an envelope
\* and its id pointer
UsableEnvelope(o) ==
    ~o.rejects /\ o.data.status # "failure" /\ o.data.hasDenorm /\ o.data.id # <<>>

RootOf(o) == Deref(o.data.map, o.data.id)

\* the username search answered with a wrapper whose items list is there
SearchAnswered ==
    /\ primaryResp # <<>>
    /\ ~AllDigits(query)
    /\ UsableEnvelope(primaryResp[1])
    /\ RootOf(primaryResp[1]).defined
    /\ RootOf(primaryResp[1]).hasData
    /\ RootOf(primaryResp[1]).data.hasItems

\* C3: a username search answered with an empty items list resolves to null
\* and the endpoint answers 404.
C3_EmptyItemsNotFound ==
    (SearchAnswered /\ RootOf(primaryResp[1]).data.items = <<>>)
    => (user = <<>> /\ (lookupPc = "done" => httpStatus = 404))

IsUserRequest(r) == SubSeq(r.url, 1, Len(sUserPath)) = sUserPath

\* C4: a non-empty query issues exactly one primary lookup: the by-ID request
\* /user/user-<query> for a query of decimal digits only, the search on /user
\* with username = query for any other.
C4_OnePrimaryLookup ==
    (lookupPc # "idle" /\ query # <<>>)
    => /\ Cardinality({i \in 1..Len(sent) : IsUserRequest(sent[i])}) = 1
       /\ IF AllDigits(query)
          THEN sent[1].url = sUserByIdPath \o query /\ sent[1].params = <<>>
          ELSE sent[1].url = sUserPath /\ sent[1].params = <<query>>

\* C4 witness: the lookup of "42" went to /user/user-42 and was answered.
C4_Witness ==
    /\ lookupPc = "done"
    /\ httpStatus = 200
    /\ query = <<"4", "2">>
    /\ sent[1].url = <<"/", "u", "s", "e", "r", "/", "u", "s", "e", "r", "-", "4", "2">>

\* C5: a username search answered with a non-empty items list resolves to the
\* normalization of the envelope entry of the first item, not of the wrapper,
\* and to null when that entry is missing or has no data.
C5_FirstItemDereferenced ==
    (SearchAnswered /\ RootOf(primaryResp[1]).data.items # <<>>)
    => LET o == primaryResp[1]
           entry == Deref(o.data.map, RootOf(o).data.items[1])
       IN /\ (~entry.defined \/ ~entry.hasData) => user = <<>>
          /\ (entry.defined /\ entry.hasData)
             => \E now \in Times : user = parseUserData(entry, Now(now))
          /\ \A now \in Times : user # parseUserData(RootOf(o), Now(now))

\* C5 witness: a search whose first item is user-7 resolved to that entry and
\* the lookup was answered with it.
C5_Witness ==
    /\ SearchAnswered
    /\ RootOf(primaryResp[1]).data.items = <<kUser7, kUser9>>
    /\ httpStatus = 200
    /\ resBody[1].user[1].username = Str(<<"a", "b">>)
    /\ resBody[1].user[1].id = Str(sUnknown)

\* a sub-fetch outcome that fails: transport error, failure marker, or an
\* envelope without a usable root entry
SubFetchFails(o) ==
    \/ ~UsableEnvelope(o)
    \/ ~RootOf(o).defined
    \/ ~RootOf(o).hasData

\* C6: once the primary lookup succeeded, both sub-fetches are issued before
\* either completes, the result exists only after both completed, it always
\* carries the user, and each of avatar and profile is null exactly when its
\* own sub-fetch failed and its own normalized record otherwise.
C6_IndependentSubFetches ==
    /\ (avPc = "done" \/ prPc = "done")
       => /\ Len(sent) = 3
          /\ sent[2].url = sAvatarPath \o TemplateStr(user[1].id)
          /\ sent[3].url = sProfilePath \o TemplateStr(user[1].id)
    /\ (lookupPc = "done" /\ user # <<>>) => httpStatus = 200
    /\ httpStatus = 200
       => /\ avPc = "done" /\ prPc = "done"
          /\ Len(completed) = 2
          /\ resBody[1].user = user /\ user # <<>>
          /\ IF SubFetchFails(avResp[1]) THEN resBody[1].avatar = <<>>
             ELSE resBody[1].avatar = parseAvatarData(RootOf(avResp[1]))
          /\ IF SubFetchFails(prResp[1]) THEN resBody[1].profile = <<>>
             ELSE resBody[1].profile = parseProfileData(RootOf(prResp[1]))

\* C6 witness: the avatar request was rejected after the profile sub-fetch had
\* completed with a record; the result has the user, the profile and no avatar.
C6_Witness ==
    /\ httpStatus = 200
    /\ completed = <<"profile", "avatar">>
    /\ avResp[1].rejects
    /\ resBody[1].avatar = <<>>
    /\ resBody[1].profile # <<>>
    /\ resBody[1].user # <<>>

\* C7: a primary lookup whose request failed with a failure marker or a
\* transport error is answered with status 500.
C7_RequestErrorIs500 ==
    (lookupPc = "done" /\ primaryResp # <<>>
     /\ (primaryResp[1].rejects \/ FailureMarker(primaryResp)))
    => httpStatus = 500

\* C8: a payload carrying v only under the snake_case key of a field
\* normalizes to the same record as the payload carrying v only under the
\* camelCase key, whatever convention the other fields use.
C8_ConventionCommutes ==
    normOut # <<>> => (normOut[1] # <<>> /\ normOut[1] = normOut[2])

\* C8 witness: displayName given as 'x' among other fields of mixed convention
\* was normalized, and the record carries it.
C8_Witness ==
    /\ normOut # <<>>
    /\ normIn[1].field = "displayName"
    /\ normIn[1].v = Str(<<"x">>)
    /\ normIn[1].camel = {"isVip", "avatarImage"}
    /\ normOut[2][1].displayName = Str(<<"x">>)
    /\ normOut[2][1].isVip = True

\* C9: a by-ID lookup whose user payload has neither id nor _id and sits in
\* the envelope under the key user-<n> resolves to a user with id <n>, and
\* the sub-fetches are keyed by <n>.
C9_IdRecoveredFromEnvelopeKey ==
    (primaryResp # <<>> /\ AllDigits(query) /\ UsableEnvelope(primaryResp[1])
     /\ RootOf(primaryResp[1]).defined /\ RootOf(primaryResp[1]).hasData
     /\ ~Truthy(RootOf(primaryResp[1]).data.f["id"])
     /\ ~Truthy(RootOf(primaryResp[1]).data.f["_id"])
     /\ SubSeq(primaryResp[1].data.id, 1, Len(sUserDash)) = sUserDash)
    => LET key == primaryResp[1].data.id
           n == SubSeq(key, Len(sUserDash) + 1, Len(key))
       IN /\ user # <<>>
          /\ user[1].id = Str(n)
          /\ lookupPc = "fanout" => sent[2].url = sAvatarPath \o n
          /\ lookupPc = "fanout" => sent[3].url = sProfilePath \o n

====
